---- MODULE Spec2Model ----
(***************************************************************************)
(* Model of the prompt-chaining document agent: four LLM stages            *)
(* (extractor, structurer, summarizer, validator), each parsing the model  *)
(* response as JSON with one repair retry, normalising it and validating   *)
(* it against a schema, driven by a CLI (main.py) or a UI (app.py) that    *)
(* writes the four documents and a trace to outputs/.                      *)
(*                                                                         *)
(* Strings are run-length encoded: a string is a sequence of runs          *)
(* <<c, n>> (character c repeated n >= 1 times) in which adjacent runs     *)
(* hold different characters, so equal strings have equal encodings and    *)
(* the extractor's real cap of 140 characters can be kept.  The character  *)
(* " " stands for whitespace, "a" for any other character.                 *)
(***************************************************************************)
EXTENDS Integers, Sequences, FiniteSets, TLC

\* ------------------------------------------------------------- bounds
\* Longest string drawn as an input, in runs.
MaxRuns == 3
\* Longest list drawn as an input of a normaliser.
MaxList == 2

\* The extractor's cap on the length of a fact (extractor.py, len(text) > 140).
FactMaxLen == 140

\* ------------------------------------------------------------- strings
IsSpace(c) == c = " "
\* The runs strings are drawn from: "a" repeated once, up to just under the cap, or
\* up to the cap, and a single whitespace character.
RunLens == {1, FactMaxLen - 1, FactMaxLen}
Runs == {<<"a", n>> : n \in RunLens} \cup {<<" ", 1>>}

RECURSIVE StrLen(_)
StrLen(s) == IF s = <<>> THEN 0 ELSE s[1][2] + StrLen(Tail(s))

RECURSIVE LStrip(_)
LStrip(s) ==
  IF s = <<>> THEN s
  ELSE IF IsSpace(s[1][1]) THEN LStrip(Tail(s)) ELSE s

RECURSIVE RStrip(_)
RStrip(s) ==
  IF s = <<>> THEN s
  ELSE IF IsSpace(s[Len(s)][1]) THEN RStrip(SubSeq(s, 1, Len(s) - 1)) ELSE s

\* str.strip(): leading and trailing whitespace removed.
Strip(s) == RStrip(LStrip(s))

\* s[:n], the first n characters of s.
RECURSIVE Prefix(_, _)
Prefix(s, n) ==
  IF s = <<>> \/ n <= 0 THEN <<>>
  ELSE IF s[1][2] <= n THEN <<s[1]>> \o Prefix(Tail(s), n - s[1][2])
  ELSE << <<s[1][1], n>> >>

\* The characters of s, one single-character string each (iterating a str).
RECURSIVE CharsOf(_)
CharsOf(s) ==
  IF s = <<>> THEN <<>>
  ELSE LET c == << <<s[1][1], 1>> >>
       IN IF s[1][2] = 1 THEN <<c>> \o CharsOf(Tail(s))
          ELSE <<c>> \o CharsOf(<< <<s[1][1], s[1][2] - 1>> >> \o Tail(s))

StringsOfRuns(k) ==
  {s \in [1..k -> Runs] : \A i \in 1..(k - 1) : s[i][1] # s[i + 1][1]}
Strings == UNION {StringsOfRuns(k) : k \in 0..MaxRuns}

HasEdgeSpace(s) == s # <<>> /\ (IsSpace(s[1][1]) \/ IsSpace(s[Len(s)][1]))

\* ------------------------------------------------------------- JSON values
\* A JSON value as json.loads returns it, tagged with its Python type:
\*   t = "missing" (key absent), "null", "bool" (n = 1 for true), "int", "float",
\*   "nan", "inf", "ninf" (the floats NaN, Infinity, -Infinity), "bigint" (an int
\*   beyond the range of float), "str" (s), "list" (l, its elements), "obj" (l, its
\*   keys in order).
Val(t, n, s, l) == [t |-> t, n |-> n, s |-> s, l |-> l]
Missing == Val("missing", 0, <<>>, <<>>)
Null == Val("null", 0, <<>>, <<>>)
BoolV(b) == Val("bool", IF b THEN 1 ELSE 0, <<>>, <<>>)
IntV(n) == Val("int", n, <<>>, <<>>)
FloatV(n) == Val("float", n, <<>>, <<>>)
NaN == Val("nan", 0, <<>>, <<>>)
Inf == Val("inf", 0, <<>>, <<>>)
NInf == Val("ninf", 0, <<>>, <<>>)
BigInt == Val("bigint", 0, <<>>, <<>>)
StrV(s) == Val("str", 0, s, <<>>)
ListV(l) == Val("list", 0, <<>>, l)
ObjV(keys) == Val("obj", 0, <<>>, keys)

\* isinstance(v, str)
IsStr(v) == v.t = "str"
\* isinstance(v, list)
IsList(v) == v.t = "list"
\* isinstance(v, (int, float)): bool is a subclass of int in Python.
IsIntOrFloat(v) == v.t \in {"bool", "int", "float", "nan", "inf", "ninf", "bigint"}

\* What `for x in v` yields: the elements of a list, the characters of a str, the
\* keys of a dict; anything else is not iterable (TypeError).
Iterable(v) == v.t \in {"list", "str", "obj"}
IterItems(v) ==
  IF v.t = "str" THEN [i \in 1..StrLen(v.s) |-> StrV(CharsOf(v.s)[i])] ELSE v.l

\* dict.get(key, default)
GetOr(v, default) == IF v.t = "missing" THEN default ELSE v
\* dict.get(key)
Get(v) == GetOr(v, Null)

\* The outcome of a call: a returned value, or the exception it raised.
Ok(v) == [ok |-> TRUE, err |-> "", val |-> v]
Raise(e) == [ok |-> FALSE, err |-> e, val |-> <<>>]

\* ------------------------------------------------------------- extractor
\* extractor._normalize_facts, `if len(text) > 140: text = text[:140]`
CapFact(text) == IF StrLen(text) > FactMaxLen THEN Prefix(text, FactMaxLen) ELSE text

\* The same test with the deduplication forgotten.
FactNeverSeen(text, seen) == FALSE

\* extractor._normalize_facts, `if text in seen: continue`
FactSeen(text, seen) == text \in seen

\* extractor._normalize_facts, the loop over the facts.
RECURSIVE NormalizeFactsLoop(_, _, _)
NormalizeFactsLoop(items, cleaned, seen) ==
  IF items = <<>> THEN cleaned
  ELSE LET fact == Head(items)
           rest == Tail(items)
       IN IF ~IsStr(fact) THEN NormalizeFactsLoop(rest, cleaned, seen)
          ELSE LET stripped == Strip(fact.s)
                   text == CapFact(stripped)
               IN IF stripped = <<>> THEN NormalizeFactsLoop(rest, cleaned, seen)
                  ELSE IF FactSeen(text, seen) THEN NormalizeFactsLoop(rest, cleaned, seen)
                  ELSE NormalizeFactsLoop(rest, Append(cleaned, text), seen \cup {text})

\* extractor._normalize_facts(facts): the cleaned list, or the TypeError of iterating
\* a value that is not iterable.
normalize_facts(facts) ==
  IF ~Iterable(facts) THEN Raise("TypeError")
  ELSE Ok(NormalizeFactsLoop(IterItems(facts), <<>>, {}))

\* ------------------------------------------------------------- _clean_list
\* The same step with the extractor's cap copied in.
CleanTextCapped(s) ==
  IF StrLen(Strip(s)) > FactMaxLen THEN Prefix(Strip(s), FactMaxLen) ELSE Strip(s)

\* `text = value.strip()` of structurer, summarizer and validator: no cap follows.
CleanText(s) == Strip(s)

\* The same test with the deduplication forgotten.
CleanSkipEmptyOnly(text, seen) == text = <<>>

\* `if not text or text in seen: continue`
CleanSkip(text, seen) == text = <<>> \/ text \in seen

\* The loop shared, line for line, by summarizer._clean_list, validator._clean_list
\* and the bullets loop of structurer._normalize_outline.
RECURSIVE CleanLoop(_, _, _)
CleanLoop(items, cleaned, seen) ==
  IF items = <<>> THEN cleaned
  ELSE LET value == Head(items)
           rest == Tail(items)
       IN IF ~IsStr(value) THEN CleanLoop(rest, cleaned, seen)
          ELSE LET text == CleanText(value.s)
               IN IF CleanSkip(text, seen) THEN CleanLoop(rest, cleaned, seen)
                  ELSE CleanLoop(rest, Append(cleaned, text), seen \cup {text})

\* summarizer._clean_list(values)
clean_list(values) ==
  IF ~Iterable(values) THEN Raise("TypeError")
  ELSE Ok(CleanLoop(IterItems(values), <<>>, {}))

\* validator._clean_list(values)
validator_clean_list(values) ==
  IF ~Iterable(values) THEN Raise("TypeError")
  ELSE Ok(CleanLoop(IterItems(values), <<>>, {}))

\* ------------------------------------------------------------- structurer
\* A parsed outline object is [title, sections]; an element of the list `sections`
\* is [t, heading, bullets], a dict when t = "obj".
Section(heading, bullets) == [t |-> "obj", heading |-> heading, bullets |-> bullets]
NotASection == [t |-> "int", heading |-> Missing, bullets |-> Missing]

\* structurer._normalize_outline, the bullets of one section.
SectionBullets(section) ==
  LET raw_bullets == GetOr(section.bullets, ListV(<<>>))
  IN IF IsList(raw_bullets) THEN CleanLoop(raw_bullets.l, <<>>, {}) ELSE <<>>

\* structurer._normalize_outline, the heading of one section.
SectionHeading(section) ==
  LET heading == GetOr(section.heading, StrV(<<>>))
  IN Strip(IF IsStr(heading) THEN heading.s ELSE <<>>)

\* structurer._normalize_outline, the loop over the sections.
RECURSIVE SectionsLoop(_, _)
SectionsLoop(raw, sections) ==
  IF raw = <<>> THEN sections
  ELSE LET section == Head(raw)
       IN IF section.t # "obj" THEN SectionsLoop(Tail(raw), sections)
          ELSE LET heading == SectionHeading(section)
                   bullets == SectionBullets(section)
               IN IF heading # <<>> \/ bullets # <<>>
                  THEN SectionsLoop(Tail(raw),
                         Append(sections, [heading |-> heading, bullets |-> bullets]))
                  ELSE SectionsLoop(Tail(raw), sections)

\* structurer._normalize_outline(data)
normalize_outline(data) ==
  LET title == Get(data.title)
      raw_sections == GetOr(data.sections, ListV(<<>>))
  IN Ok([title |-> Strip(IF IsStr(title) THEN title.s ELSE <<>>),
         sections |-> IF IsList(raw_sections) THEN SectionsLoop(raw_sections.l, <<>>)
                      ELSE <<>>])

\* ------------------------------------------------------------- summarizer
\* summarizer._normalize_summary(data)
normalize_summary(data) ==
  LET tldr == GetOr(data.tldr, StrV(<<>>))
      key_points == clean_list(GetOr(data.key_points, ListV(<<>>)))
      risks == clean_list(GetOr(data.risks, ListV(<<>>)))
      recommendations == clean_list(GetOr(data.recommendations, ListV(<<>>)))
  IN IF ~key_points.ok THEN key_points
     ELSE IF ~risks.ok THEN risks
     ELSE IF ~recommendations.ok THEN recommendations
     ELSE Ok([tldr |-> Strip(IF IsStr(tldr) THEN tldr.s ELSE <<>>),
              key_points |-> key_points.val,
              risks |-> risks.val,
              recommendations |-> recommendations.val])

\* ------------------------------------------------------------- validator
\* float(x) of an int or a float: an int beyond the floats raises OverflowError.
FloatOverflows(v) == v.t = "bigint"

\* max(0, min(100, f)): min keeps 100 unless f < 100, max keeps 0 unless m > 0, and
\* every comparison with NaN is false.
Clamp(v) ==
  IF v.t \in {"nan", "inf"} THEN 100
  ELSE IF v.t = "ninf" THEN 0
  ELSE LET m == IF v.n < 100 THEN v.n ELSE 100
       IN IF m > 0 THEN m ELSE 0

\* validator._normalize_validation, coverage_score after the isinstance test.
CoverageInput(data) ==
  LET coverage_score == Get(data.coverage_score)
  IN IF ~IsIntOrFloat(coverage_score) THEN IntV(0) ELSE coverage_score

\* validator._normalize_validation(data)
normalize_validation(data) ==
  LET coverage_score == CoverageInput(data)
      unsupported_claims == validator_clean_list(GetOr(data.unsupported_claims, ListV(<<>>)))
      missing_topics == validator_clean_list(GetOr(data.missing_topics, ListV(<<>>)))
      issues == validator_clean_list(GetOr(data.issues, ListV(<<>>)))
  IN IF FloatOverflows(coverage_score) THEN Raise("OverflowError")
     ELSE IF ~unsupported_claims.ok THEN unsupported_claims
     ELSE IF ~missing_topics.ok THEN missing_topics
     ELSE IF ~issues.ok THEN issues
     ELSE Ok([coverage_score |-> Clamp(coverage_score),
              unsupported_claims |-> unsupported_claims.val,
              missing_topics |-> missing_topics.val,
              issues |-> issues.val])

\* ------------------------------------------------------------- state
VARIABLES
  op,    \* normaliser specification: "input", or the function that was applied
  arg,   \* normaliser specification: the list of JSON values drawn as input
  data,  \* normaliser specification: the parsed object handed to the function
  res    \* normaliser specification: what the function returned or raised

normVars == <<op, arg, data, res>>

VARIABLES
  driver,        \* "cli" (main.py) or "ui" (app.py)
  api_key,       \* whether OPENAI_API_KEY is set and non-empty
  schema,        \* the schema files in force
  doc_text,      \* the document: SAMPLE_DOC for the CLI, session_state.doc_text for the UI
  pc,            \* where the driver stands
  stage,         \* the stage being run, 1..4 (0 outside the stages)
  raw,           \* the latest chat-completion response of the running stage
  calls,         \* this run's stage invocations, in order, with their arguments
  requests,      \* the chat-completion requests of the latest stage invocation, in
                 \* order, with their responses
  n_requests,    \* how many chat-completion requests this run has made
  docs,          \* what the stages of this run returned: <<>> (nothing yet) or <<document>>
  outputs,       \* the outputs dict of the driver once validate_outputs passed
  files,         \* the files of outputs/: <<>> (absent) or <<text>>
  files_before,  \* the files of outputs/ when this run started
  written,       \* the files this run has written, in order
  error,         \* the exception that ended this run, "" if none
  session,       \* the UI's st.session_state: results and error
  runs           \* how many runs were started

pipeVars == <<driver, api_key, schema, doc_text, pc, stage, raw, calls, requests, n_requests, docs,
              outputs, files, files_before, written, error, session, runs>>
vars == <<op, arg, data, res, driver, api_key, schema, doc_text, pc, stage, raw, calls,
          requests, n_requests, docs, outputs, files, files_before, written, error, session, runs>>

\* ------------------------------------------------------------- responses
\* A chat-completion response, as json.loads sees it: text that does not parse
\* (the empty content included), or the parsed value: its type and, for an object,
\* the fields the stage reads.
NoResponse == [parses |-> FALSE, t |-> "unset", data |-> <<>>]
Malformed == [parses |-> FALSE, t |-> "none", data |-> <<>>]
NotObject == [parses |-> TRUE, t |-> "list", data |-> <<>>]
Object(d) == [parses |-> TRUE, t |-> "obj", data |-> d]

Sa == << <<"a", 1>> >>
SPadded == << <<" ", 1>>, <<"a", 1>>, <<" ", 1>> >>
SLong == << <<"a", FactMaxLen - 1>>, <<" ", 1>>, <<"a", 1>> >>

ExtractorResponses ==
  {Malformed, NotObject,
   Object([facts |-> Missing]),
   Object([facts |-> Null]),
   Object([facts |-> ListV(<<>>)]),
   Object([facts |-> ListV(<<StrV(SPadded), StrV(Sa), IntV(7), StrV(SLong)>>)])}
StructurerResponses ==
  {Malformed, NotObject,
   Object([title |-> Missing, sections |-> Missing]),
   Object([title |-> StrV(SPadded),
           sections |-> Val("list", 0, <<>>,
                            <<Section(StrV(Sa), ListV(<<StrV(Sa), StrV(SPadded)>>)),
                              NotASection, Section(Null, Null)>>)])}
SummarizerResponses ==
  {Malformed, NotObject,
   Object([tldr |-> Null, key_points |-> Missing, risks |-> Missing,
           recommendations |-> Missing]),
   Object([tldr |-> StrV(Sa), key_points |-> ListV(<<StrV(Sa)>>), risks |-> Null,
           recommendations |-> Missing]),
   Object([tldr |-> StrV(SPadded), key_points |-> ListV(<<StrV(SLong), StrV(Sa)>>),
           risks |-> StrV(Sa), recommendations |-> ListV(<<>>)])}
ValidatorResponses ==
  {Malformed, NotObject,
   Object([coverage_score |-> BigInt, unsupported_claims |-> Missing,
           missing_topics |-> Missing, issues |-> Missing]),
   Object([coverage_score |-> BoolV(TRUE), unsupported_claims |-> Missing,
           missing_topics |-> Missing, issues |-> Missing]),
   Object([coverage_score |-> IntV(150), unsupported_claims |-> ListV(<<StrV(Sa)>>),
           missing_topics |-> ListV(<<>>), issues |-> ListV(<<StrV(Sa), StrV(Sa)>>)])}
Responses(s) ==
  IF s = 1 THEN ExtractorResponses
  ELSE IF s = 2 THEN StructurerResponses
  ELSE IF s = 3 THEN SummarizerResponses
  ELSE ValidatorResponses

\* json.dumps(x, indent=2): the text of x.
Dumps(x) == <<"json", x>>

\* ------------------------------------------------------------- schemas
\* schemas/*.schema.json are not among the sources.  Both readings are kept: a
\* schema that fixes the types only ("lenient"), and one that also wants the facts,
\* the title, the sections and the tldr non-empty ("strict").  A normalised
\* document always has the types right.
Schemas == {"lenient", "strict"}
SchemaOK(key, doc, sch) ==
  \/ sch = "lenient"
  \/ key = "facts" /\ Len(doc.facts) >= 1
  \/ key = "outline" /\ doc.title # <<>> /\ Len(doc.sections) >= 1
  \/ key = "summary" /\ doc.tldr # <<>>
  \/ key = "validation"

\* The call left out: the document is returned unvalidated.
NoValidate(instance, key, sch) == Ok(instance)

\* jsonschema.validate(instance=..., schema=_load_schema()): raises on mismatch.
validate(instance, key, sch) ==
  IF SchemaOK(key, instance, sch) THEN Ok(instance) ELSE Raise("ValidationError")

\* ------------------------------------------------------------- the stages
\* Each run_* below is the stage from the parsed value on: the object check, the
\* normalisation, the validation, the return.
run_extractor(r, sch) ==
  IF r.t # "obj" \/ r.data.facts.t = "missing" THEN Raise("ValueError")
  ELSE LET facts == normalize_facts(GetOr(r.data.facts, ListV(<<>>)))
       IN IF ~facts.ok THEN facts ELSE validate([facts |-> facts.val], "facts", sch)

\* The object check left out: a value that is no object is read as an empty one.
run_structurer_any_json(r, sch) ==
  LET outline == normalize_outline(IF r.t # "obj" THEN [title |-> Missing, sections |-> Missing]
                                   ELSE r.data)
  IN IF ~outline.ok THEN outline ELSE validate(outline.val, "outline", sch)

run_structurer(r, sch) ==
  IF r.t # "obj" THEN Raise("ValueError")
  ELSE LET outline == normalize_outline(r.data)
       IN IF ~outline.ok THEN outline ELSE validate(outline.val, "outline", sch)

run_summarizer(r, sch) ==
  IF r.t # "obj" THEN Raise("ValueError")
  ELSE LET summary == normalize_summary(r.data)
       IN IF ~summary.ok THEN summary ELSE validate(summary.val, "summary", sch)

run_validator(r, sch) ==
  IF r.t # "obj" THEN Raise("ValueError")
  ELSE LET validation == normalize_validation(r.data)
       IN IF ~validation.ok THEN validation
          ELSE validate(validation.val, "validation", sch)

\* Repairing even a response that parsed.
RepairAlways(r) == TRUE

\* _parse_json_or_repair: `except json.JSONDecodeError` is entered when
\* json.loads(raw_text) fails.
NeedsRepair(r) == ~r.parses

\* _parse_json_or_repair, `return json.loads(repaired)`: no handler around it.
parse_repaired(r) == IF r.parses THEN Ok(r) ELSE Raise("JSONDecodeError")

StageResult(s, r, sch) ==
  IF ~parse_repaired(r).ok THEN parse_repaired(r)
  ELSE IF s = 1 THEN run_extractor(r, sch)
  ELSE IF s = 2 THEN run_structurer(r, sch)
  ELSE IF s = 3 THEN run_summarizer(r, sch)
  ELSE run_validator(r, sch)

\* ------------------------------------------------------------- the drivers
Stages == 1..4
DocKey == <<"facts", "outline", "summary", "validation">>
NoDocs == [facts |-> <<>>, outline |-> <<>>, summary |-> <<>>, validation |-> <<>>]
SetDoc(d, s, doc) ==
  IF s = 1 THEN [d EXCEPT !.facts = <<doc>>]
  ELSE IF s = 2 THEN [d EXCEPT !.outline = <<doc>>]
  ELSE IF s = 3 THEN [d EXCEPT !.summary = <<doc>>]
  ELSE [d EXCEPT !.validation = <<doc>>]
DocOf(d, s) ==
  IF s = 1 THEN d.facts ELSE IF s = 2 THEN d.outline
  ELSE IF s = 3 THEN d.summary ELSE d.validation

\* The summarizer handed the facts instead of the outline.
StageArgsMixed(s, d, text) ==
  IF s = 1 THEN <<text>>
  ELSE IF s = 2 THEN <<d.facts>>
  ELSE IF s = 3 THEN <<d.facts>>
  ELSE <<d.facts, d.outline, d.summary>>

\* main.main and app.run_pipeline, the arguments of the four calls.
StageArgs(s, d, text) ==
  IF s = 1 THEN <<text>>
  ELSE IF s = 2 THEN <<d.facts>>
  ELSE IF s = 3 THEN <<d.outline>>
  ELSE <<d.facts, d.outline, d.summary>>

\* The user message of a stage's first request: the text, or json.dumps of the
\* argument (of the payload of the three arguments, for the validator).
UserContent(s, args) == IF s = 1 THEN args[1] ELSE Dumps(args)

\* An exception of a stage swallowed: the driver goes on to the next line.
AfterStageSwallowed(outcome, s) == IF s = 4 THEN "outputs" ELSE "stage"

\* An exception of a stage answered by parsing its response again.
AfterStageParseAgain(outcome, s) ==
  IF ~outcome.ok THEN "reparse" ELSE IF s = 4 THEN "outputs" ELSE "stage"

\* Where the driver stands after a stage: an exception propagates out of the run,
\* a return leads to the next call, or to the outputs after the validator.
AfterStage(outcome, s) ==
  IF ~outcome.ok THEN "failed" ELSE IF s = 4 THEN "outputs" ELSE "stage"

\* main.build_placeholders' default documents.
PlaceholderFacts ==
  [facts |-> << << <<"p", 1>> >>, << <<"q", 1>> >>, << <<"r", 1>> >>, << <<"s", 1>> >> >>]
PlaceholderOutline ==
  [title |-> << <<"t", 1>> >>,
   sections |-> <<[heading |-> << <<"h", 1>> >>,
                   bullets |-> << << <<"p", 1>> >>, << <<"q", 1>> >>, << <<"r", 1>> >> >>],
                  [heading |-> << <<"i", 1>> >>,
                   bullets |-> << << <<"s", 1>> >>, << <<"u", 1>> >>, << <<"v", 1>> >> >>]>>]
PlaceholderSummary ==
  [tldr |-> << <<"t", 1>> >>,
   key_points |-> << << <<"p", 1>> >>, << <<"q", 1>> >>, << <<"r", 1>> >> >>,
   risks |-> << << <<"s", 1>> >>, << <<"u", 1>> >> >>,
   recommendations |-> << << <<"v", 1>> >>, << <<"w", 1>> >>, << <<"x", 1>> >> >>]
PlaceholderValidation ==
  [coverage_score |-> 92, unsupported_claims |-> <<>>, missing_topics |-> <<>>,
   issues |-> <<>>]

\* The placeholder taken whatever the stage returned.
OrDefaultAlways(x, default) == <<default>>

\* `x or default`: None is falsy; a stage's document is a non-empty dict, truthy.
OrDefault(x, default) == IF x = <<>> THEN <<default>> ELSE x

\* main.build_placeholders(raw_text, facts=..., outline=..., summary=..., validation=...)
build_placeholders(d) ==
  [facts |-> OrDefault(d.facts, PlaceholderFacts),
   outline |-> OrDefault(d.outline, PlaceholderOutline),
   summary |-> OrDefault(d.summary, PlaceholderSummary),
   validation |-> OrDefault(d.validation, PlaceholderValidation)]

\* app.run_pipeline, the outputs dict.
app_outputs(d) ==
  [facts |-> d.facts, outline |-> d.outline, summary |-> d.summary,
   validation |-> d.validation]

DriverOutputs(drv, d) == IF drv = "cli" THEN build_placeholders(d) ELSE app_outputs(d)

\* validate_outputs(outputs): the four documents against their schemas, in order;
\* None is no instance of any of them.
ValidateOne(x, key, sch) == IF x = <<>> THEN Raise("ValidationError") ELSE validate(x[1], key, sch)
validate_outputs(o, sch) ==
  IF ~ValidateOne(o.facts, "facts", sch).ok THEN Raise("ValidationError")
  ELSE IF ~ValidateOne(o.outline, "outline", sch).ok THEN Raise("ValidationError")
  ELSE IF ~ValidateOne(o.summary, "summary", sch).ok THEN Raise("ValidationError")
  ELSE IF ~ValidateOne(o.validation, "validation", sch).ok THEN Raise("ValidationError")
  ELSE Ok(o)

\* write_outputs: the files in the order they are written.
FileOrder ==
  <<"facts.json", "outline.json", "summary.json", "validation_report.json", "trace.json">>
FileNames == {FileOrder[i] : i \in 1..Len(FileOrder)}
NoFiles == [f \in FileNames |-> <<>>]

\* The trace with the raw text left out.
TraceWithoutText(o, text) ==
  [raw_text |-> "", facts |-> o.facts, outline |-> o.outline, summary |-> o.summary,
   validation |-> o.validation]

\* write_outputs, the trace dict.
TraceOf(o, text) ==
  [raw_text |-> text, facts |-> o.facts, outline |-> o.outline, summary |-> o.summary,
   validation |-> o.validation]

\* write_outputs, the text written to the i-th file.
FileText(i, o, text) ==
  IF i = 1 THEN Dumps(o.facts)
  ELSE IF i = 2 THEN Dumps(o.outline)
  ELSE IF i = 3 THEN Dumps(o.summary)
  ELSE IF i = 4 THEN Dumps(o.validation)
  ELSE Dumps(TraceOf(o, text))

\* How many runs (CLI invocations, or clicks on "Run pipeline") are followed.
MaxClicks == 2

Texts == {"sample", "edited"}
NoSession == [results |-> <<>>, error |-> ""]

\* The pipeline at rest, before any run.
PipeRest ==
  /\ doc_text = "sample"
  /\ pc = "idle" /\ stage = 0 /\ raw = NoResponse
  /\ calls = <<>> /\ requests = <<>> /\ n_requests = 0 /\ docs = NoDocs /\ outputs = <<>>
  /\ files = NoFiles /\ files_before = NoFiles /\ written = <<>>
  /\ error = "" /\ session = NoSession /\ runs = 0
PipeIdle == driver = "cli" /\ api_key = TRUE /\ schema = "lenient" /\ PipeRest

Init ==
  /\ driver \in {"cli", "ui"}
  /\ api_key \in BOOLEAN
  /\ schema \in Schemas
  /\ PipeRest
  /\ op = "none" /\ arg = <<>> /\ data = <<>> /\ res = <<>>

\* The locals of a run, before it starts and after it is over.
RunLocalsCleared ==
  /\ raw' = NoResponse /\ calls' = <<>> /\ requests' = <<>> /\ n_requests' = 0
  /\ docs' = NoDocs /\ outputs' = <<>> /\ written' = <<>> /\ error' = ""

\* `python main.py`, or a click on "Run pipeline": load_config, read the text.
StartRun ==
  /\ pc = "idle" /\ runs < MaxClicks
  /\ runs' = runs + 1
  /\ pc' = "stage" /\ stage' = 1
  /\ RunLocalsCleared
  /\ files_before' = files
  /\ UNCHANGED <<driver, api_key, schema, doc_text, files, session>>
  /\ UNCHANGED normVars

\* The stage called with the test of the key left out.
InvokeStageWithoutKey ==
  /\ pc = "stage"
  /\ calls' = Append(calls, [stage |-> stage, args |-> StageArgs(stage, docs, doc_text)])
  /\ pc' = "request"
  /\ requests' = <<>> /\ raw' = NoResponse
  /\ UNCHANGED <<driver, api_key, schema, doc_text, stage, error, n_requests, docs, outputs,
                 files, files_before, written, session, runs>>
  /\ UNCHANGED normVars

\* run_<stage>(...) is called: _load_prompt, then get_client_from_env_and_config,
\* which raises ValueError when the key is not set.
InvokeStage ==
  /\ pc = "stage"
  /\ calls' = Append(calls, [stage |-> stage, args |-> StageArgs(stage, docs, doc_text)])
  /\ IF api_key
     THEN pc' = "request" /\ UNCHANGED <<stage, error>>
     ELSE /\ pc' = AfterStage(Raise("ValueError"), stage)
          /\ stage' = IF pc' = "stage" THEN stage + 1 ELSE stage
          /\ error' = "ValueError"
  /\ requests' = <<>> /\ raw' = NoResponse
  /\ UNCHANGED <<driver, api_key, schema, doc_text, n_requests, docs, outputs, files,
                 files_before, written, session, runs>>
  /\ UNCHANGED normVars

\* chat_completion(messages=[system prompt, user content]): the first request.
FirstRequest ==
  /\ pc = "request"
  /\ \E r \in Responses(stage) :
       /\ raw' = r
       /\ requests' = Append(requests,
            [stage |-> stage, kind |-> "first",
             content |-> UserContent(stage, calls[Len(calls)].args), response |-> r])
  /\ n_requests' = n_requests + 1
  /\ pc' = "parse"
  /\ UNCHANGED <<driver, api_key, schema, doc_text, stage, calls, docs, outputs, files,
                 files_before, written, error, session, runs>>
  /\ UNCHANGED normVars

\* _parse_json_or_repair, the except branch: the repair request.
RepairRequest ==
  /\ pc = "parse" /\ NeedsRepair(raw)
  /\ \E r \in Responses(stage) :
       /\ raw' = r
       /\ requests' = Append(requests,
            [stage |-> stage, kind |-> "repair", content |-> raw, response |-> r])
  /\ n_requests' = n_requests + 1
  /\ pc' = "reparse"
  /\ UNCHANGED <<driver, api_key, schema, doc_text, stage, calls, docs, outputs, files,
                 files_before, written, error, session, runs>>
  /\ UNCHANGED normVars

\* The rest of the stage, from the parsed value to its return or its exception.
FinishStage ==
  /\ \/ pc = "parse" /\ ~NeedsRepair(raw)
     \/ pc = "reparse"
  /\ LET outcome == StageResult(stage, raw, schema)
     IN /\ docs' = IF outcome.ok THEN SetDoc(docs, stage, outcome.val) ELSE docs
        /\ error' = IF outcome.ok THEN error ELSE outcome.err
        /\ pc' = AfterStage(outcome, stage)
        /\ stage' = IF pc' = "stage" THEN stage + 1 ELSE stage
  /\ UNCHANGED <<driver, api_key, schema, doc_text, raw, calls, requests, n_requests, outputs, files,
                 files_before, written, session, runs>>
  /\ UNCHANGED normVars

\* The outputs dict is built and validate_outputs(outputs) is called.
ValidateOutputs ==
  /\ pc = "outputs"
  /\ LET checked == validate_outputs(DriverOutputs(driver, docs), schema)
     IN IF checked.ok
        THEN outputs' = <<checked.val>> /\ pc' = "write" /\ UNCHANGED error
        ELSE outputs' = outputs /\ pc' = "failed" /\ error' = checked.err
  /\ requests' = <<>> /\ raw' = NoResponse
  /\ UNCHANGED <<driver, api_key, schema, doc_text, stage, calls, n_requests, docs, files,
                 files_before, written, session, runs>>
  /\ UNCHANGED normVars

\* write_outputs(outputs, raw_text): one path.write_text.
WriteFile ==
  /\ pc = "write"
  /\ LET i == Len(written) + 1
     IN /\ files' = [files EXCEPT ![FileOrder[i]] = <<FileText(i, outputs[1], doc_text)>>]
        /\ written' = Append(written, FileOrder[i])
        /\ pc' = IF i = Len(FileOrder) THEN "written" ELSE "write"
  /\ UNCHANGED <<driver, api_key, schema, doc_text, stage, raw, calls, requests, n_requests, docs,
                 outputs, files_before, error, session, runs>>
  /\ UNCHANGED normVars

\* main.main after write_outputs: the paths are printed and the process ends.
CliExit ==
  /\ driver = "cli" /\ pc = "written"
  /\ pc' = "idle" /\ stage' = 0
  /\ RunLocalsCleared
  /\ UNCHANGED <<driver, api_key, schema, doc_text, files, files_before, session, runs>>
  /\ UNCHANGED normVars

\* main.main has no handler: the exception ends the process.
CliCrash ==
  /\ driver = "cli" /\ pc = "failed"
  /\ pc' = "idle" /\ stage' = 0
  /\ RunLocalsCleared
  /\ UNCHANGED <<driver, api_key, schema, doc_text, files, files_before, session, runs>>
  /\ UNCHANGED normVars

\* app.main: results = run_pipeline(...); error = None.
UiResults ==
  /\ driver = "ui" /\ pc = "written"
  /\ session' = [results |-> outputs, error |-> ""]
  /\ pc' = "idle" /\ stage' = 0
  /\ RunLocalsCleared
  /\ UNCHANGED <<driver, api_key, schema, doc_text, files, files_before, runs>>
  /\ UNCHANGED normVars

\* The handler with `results = None` forgotten.
UiErrorKeepsResults ==
  /\ driver = "ui" /\ pc = "failed"
  /\ session' = [results |-> session.results, error |-> error]
  /\ pc' = "idle" /\ stage' = 0
  /\ RunLocalsCleared
  /\ UNCHANGED <<driver, api_key, schema, doc_text, files, files_before, runs>>
  /\ UNCHANGED normVars

\* app.main: except Exception as exc: error = str(exc); results = None.
UiError ==
  /\ driver = "ui" /\ pc = "failed"
  /\ session' = [results |-> <<>>, error |-> error]
  /\ pc' = "idle" /\ stage' = 0
  /\ RunLocalsCleared
  /\ UNCHANGED <<driver, api_key, schema, doc_text, files, files_before, runs>>
  /\ UNCHANGED normVars

\* app.main, the dict shown in the "trace.json" tab: the results of the session with
\* st.session_state.doc_text, the text of the text area as it is now.
ShownTrace == TraceOf(session.results[1], doc_text)

\* app.main: the text area is edited.
EditText ==
  /\ driver = "ui" /\ pc = "idle"
  /\ \E text \in Texts \ {doc_text} : doc_text' = text
  /\ UNCHANGED <<driver, api_key, schema, pc, stage, raw, calls, requests, n_requests, docs, outputs,
                 files, files_before, written, error, session, runs>>
  /\ UNCHANGED normVars

\* app.main: a click on "Load sample".
LoadSample ==
  /\ driver = "ui" /\ pc = "idle"
  /\ doc_text' = "sample"
  /\ UNCHANGED <<driver, api_key, schema, pc, stage, raw, calls, requests, n_requests, docs, outputs,
                 files, files_before, written, error, session, runs>>
  /\ UNCHANGED normVars

Next ==
  \/ StartRun
  \/ InvokeStage
  \/ FirstRequest
  \/ RepairRequest
  \/ FinishStage
  \/ ValidateOutputs
  \/ WriteFile
  \/ CliExit
  \/ CliCrash
  \/ UiResults
  \/ UiError
  \/ EditText
  \/ LoadSample

Spec == Init /\ [][Next]_vars

\* The steps of a run between its start and its end.  The interpreter takes each of
\* them once it is reached, and a chat-completion request is assumed to return.
RunStep ==
  \/ InvokeStage
  \/ FirstRequest
  \/ RepairRequest
  \/ FinishStage
  \/ ValidateOutputs
  \/ WriteFile

\* How many runs are followed to their end under fairness.
MaxLiveRuns == 1

\* A run is started as in Next, up to MaxLiveRuns times.
StartLiveRun == runs < MaxLiveRuns /\ StartRun

NextLive ==
  \/ StartLiveRun
  \/ InvokeStage
  \/ FirstRequest
  \/ RepairRequest
  \/ FinishStage
  \/ ValidateOutputs
  \/ WriteFile
  \/ CliExit
  \/ CliCrash
  \/ UiResults
  \/ UiError
  \/ EditText
  \/ LoadSample

SpecLive == Init /\ [][NextLive]_vars /\ WF_vars(RunStep)

\* ------------------------------------------------------------- properties: pipeline
Returned(s) == DocOf(docs, s) # <<>>
AllReturned == \A s \in Stages : Returned(s)

\* C1: in every run the stages are invoked in the order extractor, structurer,
\* summarizer, validator, each only after the stages before it have returned, and
\* each with exactly their returned documents: the structurer gets the facts, the
\* summarizer the outline, the validator the facts, the outline and the summary.
C1_StagesInOrder ==
  /\ Len(calls) <= 4
  /\ pc \in {"request", "parse", "reparse"} => Len(calls) = stage
  /\ \A i \in 1..Len(calls) :
       /\ calls[i].stage = i
       /\ \A j \in 1..(i - 1) : Returned(j)
       /\ i = 1 => calls[i].args = <<doc_text>>
       /\ i = 2 => calls[i].args = <<docs.facts>>
       /\ i = 3 => calls[i].args = <<docs.outline>>
       /\ i = 4 => calls[i].args = <<docs.facts, docs.outline, docs.summary>>

\* C1's case: a run in which all four stages were invoked and returned.
C1_Witness == Len(calls) = 4 /\ AllReturned /\ pc = "written"

\* C2: one stage invocation makes at most two chat-completion requests; the second,
\* the repair, is made if and only if the first response fails to parse; and when
\* the repair response fails to parse too, the stage raises with no third request.
C2_RetryOnce ==
  /\ Len(requests) <= 2
  /\ n_requests <= 2 * Len(calls)
  /\ \A i \in 1..Len(requests) : requests[i].stage = calls[Len(calls)].stage
  /\ Len(requests) >= 1 => requests[1].kind = "first"
  /\ Len(requests) = 2 =>
       requests[2].kind = "repair" /\ ~requests[1].response.parses
  /\ (Len(requests) = 1 /\ ~requests[1].response.parses) => pc = "parse"
  /\ (Len(requests) = 2 /\ ~requests[2].response.parses) =>
       \/ pc = "reparse"
       \/ pc = "failed" /\ error = "JSONDecodeError" /\ ~Returned(stage)

\* C2's case: a stage whose first response and whose repair response both failed to
\* parse, and which raised.
C2_Witness ==
  /\ Len(requests) = 2 /\ ~requests[2].response.parses
  /\ pc = "failed" /\ stage = 3

\* What a stage makes of the parsed object it normalises.
NormalDoc(s, d) ==
  IF s = 1 THEN [facts |-> normalize_facts(d.facts).val]
  ELSE IF s = 2 THEN normalize_outline(d).val
  ELSE IF s = 3 THEN normalize_summary(d).val
  ELSE normalize_validation(d).val

\* C3: every document a stage returns is the normalised form of the response that
\* was parsed and has passed the stage's schema: nothing else reaches the next stage.
C3_ReturnedValidated ==
  \A s \in Stages :
    Returned(s) =>
      /\ SchemaOK(DocKey[s], DocOf(docs, s)[1], schema)
      /\ (requests # <<>> /\ requests[1].stage = s) =>
           /\ requests[Len(requests)].response.t = "obj"
           /\ DocOf(docs, s)[1] = NormalDoc(s, requests[Len(requests)].response.data)

\* C3's case: under the schema that rejects empty documents, a stage has returned a
\* document obtained through a repair, and is the latest stage invoked.
C3_Witness ==
  /\ schema = "strict" /\ Len(requests) = 2 /\ pc = "stage"
  /\ Returned(requests[1].stage)

\* C4: no file of outputs/ is created or modified unless all four stages have
\* returned and validate_outputs has passed; when a stage or the final validation
\* raises, outputs/ is left as it was before the run.
C4_WriteOnlyAfterSuccess ==
  /\ (pc # "idle" /\ (files # files_before \/ written # <<>>)) =>
       /\ AllReturned /\ outputs # <<>> /\ error = ""
       /\ pc \in {"write", "written"}
  /\ (pc = "failed" \/ error # "") => files = files_before /\ written = <<>>

\* C4's case: a run that failed in the validator after an earlier run had written
\* its files, which are all still there.
C4_Witness ==
  /\ pc = "failed" /\ stage = 4 /\ n_requests >= 4
  /\ \A f \in FileNames : files[f] # <<>>

\* C5: a successful run writes exactly five files, in the order facts.json,
\* outline.json, summary.json, validation_report.json, trace.json; each of the first
\* four holds the document its stage returned, and trace.json the raw text with
\* those same four documents.
C5_FiveFiles ==
  /\ Len(written) <= 5
  /\ Len(written) >= 1 => written[1] = "facts.json"
  /\ Len(written) >= 2 => written[2] = "outline.json"
  /\ Len(written) >= 3 => written[3] = "summary.json"
  /\ Len(written) >= 4 => written[4] = "validation_report.json"
  /\ Len(written) >= 5 => written[5] = "trace.json"
  /\ pc = "written" =>
       /\ Len(written) = 5 /\ AllReturned
       /\ files["facts.json"] = <<Dumps(docs.facts)>>
       /\ files["outline.json"] = <<Dumps(docs.outline)>>
       /\ files["summary.json"] = <<Dumps(docs.summary)>>
       /\ files["validation_report.json"] = <<Dumps(docs.validation)>>
       /\ files["trace.json"] =
            <<Dumps([raw_text |-> doc_text, facts |-> docs.facts,
                     outline |-> docs.outline, summary |-> docs.summary,
                     validation |-> docs.validation])>>

\* C5's case: the second successful run of the CLI, over the files of the first.
C5_Witness ==
  /\ pc = "written" /\ driver = "cli" /\ runs = 2
  /\ \A f \in FileNames : files_before[f] # <<>>

\* ------------------------------------------------------------- normalisers, applied
\* How far past the ends of [0, 100] the coverage scores drawn as inputs reach.
MaxOver == 2

Items == {StrV(s) : s \in Strings} \cup {IntV(7)}
ItemLists == UNION {[1..n -> Items] : n \in 0..MaxList}
Reverse(l) == [i \in 1..Len(l) |-> l[Len(l) + 1 - i]]

ScoreRange == (0 - MaxOver)..(100 + MaxOver)
ScoreInputs ==
  {IntV(n) : n \in ScoreRange} \cup {FloatV(n) : n \in ScoreRange}
    \cup {Missing, Null, BoolV(TRUE), BoolV(FALSE), StrV(<< <<"a", 1>> >>),
          ListV(<<IntV(7)>>), NaN, Inf, NInf, BigInt}

\* The parsed objects built from a drawn list: its first element stands as the
\* scalar field, the list and its reverse as the list fields.
FirstOf(l) == IF l = <<>> THEN Missing ELSE l[1]
OutlineOf(l) ==
  [title |-> FirstOf(l),
   sections |-> Val("list", 0, <<>>,
                    <<Section(FirstOf(Reverse(l)), ListV(l)), NotASection,
                      Section(Null, ListV(Reverse(l)))>>)]
SummaryOf(l) ==
  [tldr |-> FirstOf(l), key_points |-> ListV(l), risks |-> ListV(Reverse(l)),
   recommendations |-> Missing]
ValidationOf(score, l) ==
  [coverage_score |-> score, unsupported_claims |-> ListV(l),
   missing_topics |-> ListV(Reverse(l)), issues |-> Missing]

\* The values a field of a parsed object can hold, one of each JSON type: null, a
\* number, a boolean, a string, an object, a list of mixed values.
FieldValues ==
  {Null, IntV(7), FloatV(1), BoolV(TRUE), StrV(SPadded), ObjV(<<StrV(Sa)>>),
   ListV(<<Null, IntV(7), StrV(SPadded), ListV(<<>>)>>)}

InitNorm ==
  /\ PipeIdle
  /\ res = <<>>
  /\ \/ op = "input" /\ arg \in ItemLists /\ data = <<>>
     \/ op = "score_input" /\ arg = <<>>
          /\ data \in {ValidationOf(score, <<>>) : score \in ScoreInputs}
     \/ op = "field_input" /\ arg = <<>> /\ data \in FieldValues

ApplyNormalizeFacts ==
  /\ op = "input"
  /\ op' = "normalize_facts"
  /\ data' = [facts |-> ListV(arg)]
  /\ res' = normalize_facts(data'.facts)
  /\ UNCHANGED arg
  /\ UNCHANGED pipeVars

ApplyCleanList ==
  /\ op = "input"
  /\ op' = "clean_list"
  /\ data' = ListV(arg)
  /\ res' = clean_list(data')
  /\ UNCHANGED arg
  /\ UNCHANGED pipeVars

ApplyValidatorCleanList ==
  /\ op = "input"
  /\ op' = "validator_clean_list"
  /\ data' = ListV(arg)
  /\ res' = validator_clean_list(data')
  /\ UNCHANGED arg
  /\ UNCHANGED pipeVars

ApplyNormalizeOutline ==
  /\ op = "input"
  /\ op' = "normalize_outline"
  /\ data' = OutlineOf(arg)
  /\ res' = normalize_outline(data')
  /\ UNCHANGED arg
  /\ UNCHANGED pipeVars

ApplyNormalizeSummary ==
  /\ op = "input"
  /\ op' = "normalize_summary"
  /\ data' = SummaryOf(arg)
  /\ res' = normalize_summary(data')
  /\ UNCHANGED arg
  /\ UNCHANGED pipeVars

ApplyNormalizeValidation ==
  /\ op = "input"
  /\ op' = "normalize_validation"
  /\ data' = ValidationOf(IntV(50), arg)
  /\ res' = normalize_validation(data')
  /\ UNCHANGED arg
  /\ UNCHANGED pipeVars

ApplyNormalizeScore ==
  /\ op = "score_input"
  /\ op' = "normalize_score"
  /\ res' = normalize_validation(data)
  /\ UNCHANGED <<arg, data>>
  /\ UNCHANGED pipeVars

\* The normalisers on a parsed object every field of which holds the drawn value.
ApplyFactsField ==
  /\ op = "field_input"
  /\ op' = "facts_field"
  /\ res' = normalize_facts(GetOr(data, ListV(<<>>)))
  /\ UNCHANGED <<arg, data>>
  /\ UNCHANGED pipeVars

ApplyOutlineField ==
  /\ op = "field_input"
  /\ op' = "outline_field"
  /\ res' = normalize_outline([title |-> data, sections |-> data])
  /\ UNCHANGED <<arg, data>>
  /\ UNCHANGED pipeVars

ApplySectionField ==
  /\ op = "field_input"
  /\ op' = "section_field"
  /\ res' = normalize_outline([title |-> Missing,
                               sections |-> Val("list", 0, <<>>, <<Section(data, data)>>)])
  /\ UNCHANGED <<arg, data>>
  /\ UNCHANGED pipeVars

ApplySummaryField ==
  /\ op = "field_input"
  /\ op' = "summary_field"
  /\ res' = normalize_summary([tldr |-> data, key_points |-> data, risks |-> data,
                               recommendations |-> data])
  /\ UNCHANGED <<arg, data>>
  /\ UNCHANGED pipeVars

ApplyValidationField ==
  /\ op = "field_input"
  /\ op' = "validation_field"
  /\ res' = normalize_validation([coverage_score |-> data, unsupported_claims |-> data,
                                  missing_topics |-> data, issues |-> data])
  /\ UNCHANGED <<arg, data>>
  /\ UNCHANGED pipeVars

\* A list a normaliser returned, as the value handed to it again.
AsList(l) == [i \in 1..Len(l) |-> StrV(l[i])]

\* _normalize_facts applied to the list it returned.
ReapplyNormalizeFacts ==
  /\ op = "normalize_facts" /\ res.ok
  /\ op' = "normalize_facts_twice"
  /\ data' = ListV(AsList(res.val))
  /\ res' = normalize_facts(data')
  /\ UNCHANGED arg
  /\ UNCHANGED pipeVars

\* _clean_list applied to the list it returned.
ReapplyCleanList ==
  /\ op = "clean_list" /\ res.ok
  /\ op' = "clean_list_twice"
  /\ data' = ListV(AsList(res.val))
  /\ res' = clean_list(data')
  /\ UNCHANGED arg
  /\ UNCHANGED pipeVars

NextNorm ==
  \/ ReapplyNormalizeFacts
  \/ ReapplyCleanList
  \/ ApplyNormalizeFacts
  \/ ApplyCleanList
  \/ ApplyValidatorCleanList
  \/ ApplyNormalizeOutline
  \/ ApplyNormalizeSummary
  \/ ApplyNormalizeValidation
  \/ ApplyNormalizeScore
  \/ ApplyFactsField
  \/ ApplyOutlineField
  \/ ApplySectionField
  \/ ApplySummaryField
  \/ ApplyValidationField

SpecNorm == InitNorm /\ [][NextNorm]_vars

\* ------------------------------------------------------------- properties: normalisers
Range(f) == {f[i] : i \in DOMAIN f}
StrippedOf(v) == Strip(v.s)
CappedOf(v) == Prefix(Strip(v.s), FactMaxLen)

\* out is the list l with non-strings and blank strings dropped, each string
\* replaced by F of it, and every repetition after the first dropped.
FirstAt(x, l, F(_)) ==
  CHOOSE i \in 1..Len(l) :
    /\ IsStr(l[i]) /\ F(l[i]) = x
    /\ \A j \in 1..(i - 1) : ~(IsStr(l[j]) /\ F(l[j]) = x)
IsDedupOf(out, l, F(_)) ==
  /\ \A k \in 1..Len(out) :
       /\ out[k] # <<>>
       /\ \E i \in 1..Len(l) : IsStr(l[i]) /\ F(l[i]) = out[k]
  /\ \A j, k \in 1..Len(out) : j < k => out[j] # out[k]
  /\ \A i \in 1..Len(l) :
       (IsStr(l[i]) /\ Strip(l[i].s) # <<>>) => F(l[i]) \in Range(out)
  /\ \A j, k \in 1..Len(out) : j < k => FirstAt(out[j], l, F) < FirstAt(out[k], l, F)

\* C6: every fact returned by _normalize_facts has no leading or trailing
\* whitespace, for every input list, facts longer than 140 characters included.
C6_FactsTrimmed ==
  op = "normalize_facts" =>
    /\ res.ok
    /\ \A k \in 1..Len(res.val) : ~HasEdgeSpace(res.val[k])

\* C7: the list returned by _normalize_facts holds only non-empty strings of at
\* most 140 characters, no two of them equal (duplicates are detected after
\* truncation), in the order of their first occurrence in the input.
C7_FactsCappedDeduped ==
  op = "normalize_facts" =>
    /\ res.ok
    /\ \A k \in 1..Len(res.val) :
         res.val[k] # <<>> /\ StrLen(res.val[k]) <= FactMaxLen
    /\ IsDedupOf(res.val, arg, CappedOf)

\* C7's case: two facts that differ before truncation and are equal after it,
\* of which one was kept.
C7_Witness ==
  /\ op = "normalize_facts"
  /\ \E i, j \in 1..Len(arg) :
       /\ i < j /\ IsStr(arg[i]) /\ IsStr(arg[j])
       /\ Strip(arg[i].s) # Strip(arg[j].s)
       /\ StrLen(Strip(arg[i].s)) > FactMaxLen
       /\ CappedOf(arg[i]) = CappedOf(arg[j])
  /\ Len(res.val) = 1

\* A JSON number, as the claim means "numeric": booleans are not numbers.
JsonNumber(v) == v.t \in {"int", "float", "nan", "inf", "ninf", "bigint"}
Below0(v) == v.t = "ninf" \/ (v.t \in {"int", "float"} /\ v.n < 0)
Above100(v) == v.t \in {"inf", "bigint"} \/ (v.t \in {"int", "float"} /\ v.n > 100)
Within(v) == v.t \in {"int", "float"} /\ v.n >= 0 /\ v.n <= 100

\* C8: the coverage_score returned by _normalize_validation lies in [0, 100]: an
\* input below 0 gives 0, above 100 gives 100, a value within the range is kept,
\* and a missing or non-numeric coverage_score gives 0.
C8_ScoreClamped ==
  op = "normalize_score" =>
    /\ res.ok
    /\ LET in == data.coverage_score
           out == res.val.coverage_score
       IN /\ out >= 0 /\ out <= 100
          /\ Below0(in) => out = 0
          /\ Above100(in) => out = 100
          /\ Within(in) => out = in.n
          /\ ~JsonNumber(in) => out = 0

\* Every string of a normalised outline, summary or validation report.
OutlineStrings(o) ==
  {o.title} \cup UNION {{o.sections[k].heading} \cup Range(o.sections[k].bullets)
                          : k \in 1..Len(o.sections)}
SummaryStrings(s) ==
  {s.tldr} \cup Range(s.key_points) \cup Range(s.risks) \cup Range(s.recommendations)
ValidationStrings(v) ==
  Range(v.unsupported_claims) \cup Range(v.missing_topics) \cup Range(v.issues)
EmittedStrings ==
  IF op = "normalize_outline" THEN OutlineStrings(res.val)
  ELSE IF op = "normalize_summary" THEN SummaryStrings(res.val)
  ELSE IF op = "normalize_validation" THEN ValidationStrings(res.val)
  ELSE IF op \in {"clean_list", "validator_clean_list"} THEN Range(res.val)
  ELSE {}

\* C9 as stated: the structurer, the summarizer and the validator cap string
\* length as the extractor does, so no string of their normalised result is longer
\* than the cap.
C9_AllStagesCap == \A s \in EmittedStrings : StrLen(s) <= FactMaxLen

\* C9 as amended: only the extractor caps string length (at 140 characters); the
\* structurer, the summarizer and the validator trim and never shorten: every
\* non-blank input string reaches their result stripped and at its full length.
StrippedInputs == {Strip(arg[i].s) : i \in {j \in 1..Len(arg) : IsStr(arg[j])}}
C9_OnlyExtractorCaps ==
  /\ op = "normalize_facts" => \A k \in 1..Len(res.val) : StrLen(res.val[k]) <= FactMaxLen
  /\ op \in {"normalize_outline", "normalize_summary", "normalize_validation",
             "clean_list", "validator_clean_list"} =>
       /\ res.ok
       /\ EmittedStrings \ {<<>>} = StrippedInputs \ {<<>>}

\* C9's case: a string longer than the extractor's cap in a normalised summary.
C9_Witness ==
  /\ op = "normalize_summary"
  /\ \E k \in 1..Len(res.val.key_points) : StrLen(res.val.key_points[k]) > FactMaxLen

\* C10: the bullets of each outline section and every result of _clean_list hold
\* only non-empty strings, each the stripped form of an input string, no two equal,
\* in order of first occurrence; deduplication is per list, not across lists.
C10_ListsTrimmedDeduped ==
  /\ op \in {"clean_list", "validator_clean_list"} =>
       res.ok /\ IsDedupOf(res.val, arg, StrippedOf)
  /\ op = "normalize_outline" =>
       /\ Len(res.val.sections) \in {0, 2}
       /\ \A k \in 1..Len(res.val.sections) :
            IsDedupOf(res.val.sections[k].bullets,
                      IF k = 1 THEN arg ELSE Reverse(arg), StrippedOf)
  /\ op = "normalize_summary" =>
       /\ IsDedupOf(res.val.key_points, arg, StrippedOf)
       /\ IsDedupOf(res.val.risks, Reverse(arg), StrippedOf)
       /\ res.val.recommendations = <<>>
  /\ op = "normalize_validation" =>
       /\ IsDedupOf(res.val.unsupported_claims, arg, StrippedOf)
       /\ IsDedupOf(res.val.missing_topics, Reverse(arg), StrippedOf)
       /\ res.val.issues = <<>>

\* C10's case: a repeated bullet dropped within a section and kept in the other
\* section, which holds it too.
C10_Witness ==
  /\ op = "normalize_outline"
  /\ Len(arg) = 2 /\ IsStr(arg[1]) /\ IsStr(arg[2])
  /\ arg[1] # arg[2] /\ Strip(arg[1].s) = Strip(arg[2].s)
  /\ Len(res.val.sections) = 2
  /\ Len(res.val.sections[1].bullets) = 1
  /\ res.val.sections[1].bullets = res.val.sections[2].bullets

\* ------------------------------------------------------------- properties: the drivers
\* What either driver writes, given the documents the stages returned and the text:
\* the five files of write_outputs over the returned documents themselves.
FilesOf(d, text) ==
  [f \in FileNames |->
     IF f = "facts.json" THEN <<Dumps(d.facts)>>
     ELSE IF f = "outline.json" THEN <<Dumps(d.outline)>>
     ELSE IF f = "summary.json" THEN <<Dumps(d.summary)>>
     ELSE IF f = "validation_report.json" THEN <<Dumps(d.validation)>>
     ELSE <<Dumps([raw_text |-> text, facts |-> d.facts, outline |-> d.outline,
                   summary |-> d.summary, validation |-> d.validation])>>]
IsPlaceholder(x) ==
  x \in {<<PlaceholderFacts>>, <<PlaceholderOutline>>, <<PlaceholderSummary>>,
         <<PlaceholderValidation>>}

\* C11: the CLI and the UI are equivalent: what a run calls and writes depends on
\* the text and the responses only, not on the driver.  The arguments of the calls
\* are the text and the returned documents, the outputs dict of main.main is the
\* one app.run_pipeline builds (build_placeholders never puts a placeholder in the
\* place of a returned document), and the five files written are the files of
\* those documents and that text.
C11_DriversEquivalent ==
  /\ \A i \in 1..Len(calls) : calls[i].args = StageArgs(i, docs, doc_text)
  /\ AllReturned =>
       /\ build_placeholders(docs) = app_outputs(docs)
       /\ \A s \in Stages : ~IsPlaceholder(DocOf(build_placeholders(docs), s))
  /\ outputs # <<>> => outputs[1] = docs
  /\ pc = "written" => files = FilesOf(docs, doc_text)

\* C11's case: the CLI has written its five files from four returned documents.
C11_Witness ==
  /\ driver = "cli" /\ pc = "written" /\ AllReturned
  /\ files["trace.json"] # <<>>

\* ------------------------------------------------------------- properties: failures
\* The response r of stage s parsed, and is not what the stage accepts: no object,
\* or for the extractor an object without the key "facts".
Rejected(r, s) == r.parses /\ (r.t # "obj" \/ (s = 1 /\ r.data.facts.t = "missing"))

\* C12: when the value parsed from the first response or from the repair response
\* is not an object (for the extractor: or has no "facts" key), the stage raises
\* ValueError: no request follows a response that parsed, the stage returns
\* nothing, and no later stage is invoked.
C12_NonObjectRejected ==
  /\ \A i \in 1..Len(requests) : requests[i].response.parses => i = Len(requests)
  /\ (requests # <<>> /\ Rejected(requests[Len(requests)].response, requests[1].stage)) =>
       /\ pc \in {"parse", "reparse", "failed"}
       /\ stage = requests[1].stage /\ Len(calls) = stage
       /\ ~Returned(stage)
       /\ pc = "failed" => error = "ValueError"

\* C12's case: the structurer raised on a repair response that parsed to a value
\* that is no object.
C12_Witness ==
  /\ pc = "failed" /\ stage = 2 /\ Len(requests) = 2
  /\ requests[2].response = NotObject /\ error = "ValueError"

\* ------------------------------------------------------------- properties: termination
Running == pc \notin {"idle", "written", "failed"}
Ended == pc \in {"written", "failed"}

\* C13: every run terminates.  A run makes at most eight chat-completion requests
\* and invokes no stage twice, and, each request returning, a run that has started
\* ends with the five files written or with an exception.
C13_RunTerminates ==
  /\ [](/\ n_requests <= 8
        /\ Len(calls) <= 4
        /\ \A i, j \in 1..Len(calls) : i < j => calls[i].stage < calls[j].stage
        /\ pc = "written" => Len(written) = 5
        /\ pc = "failed" => error # "")
  /\ (Running ~> Ended)

\* C13's case: a run that needed all eight requests, a repair in every stage, and
\* has written its files.
C13_Witness == pc = "written" /\ n_requests = 8 /\ Len(written) = 5

\* ------------------------------------------------------------- properties: ill-typed fields
FieldOps ==
  {"facts_field", "outline_field", "section_field", "summary_field", "validation_field"}

\* C14: once the response has parsed to an object, normalisation never raises:
\* whatever JSON value the fields of the object hold (null, a number, a string, an
\* object, a list of mixed values), each stage's normaliser returns a document.
C14_NormalisationNeverRaises == op \in FieldOps => res.ok

\* ------------------------------------------------------------- properties: the UI
\* C15: the session state of the UI never holds both a result and an error.  It
\* changes only when a run ends: a run that succeeded sets results to its four
\* outputs and error to None, a run that failed sets error to the message of the
\* exception and results to None, so the results of an earlier run do not outlive a
\* later failure.
C15_ResultXorError ==
  [][/\ ~(session'.results # <<>> /\ session'.error # "")
     /\ session' # session => (driver = "ui" /\ pc \in {"written", "failed"} /\ pc' = "idle")
     /\ (driver = "ui" /\ pc = "written" /\ pc' = "idle") =>
          (outputs # <<>> /\ session' = [results |-> outputs, error |-> ""])
     /\ (driver = "ui" /\ pc = "failed" /\ pc' = "idle") =>
          (error # "" /\ session' = [results |-> <<>>, error |-> error])]_vars

\* C15's case: a failed run after a successful one, whose files are still on disk
\* and whose results are gone from the session.
C15_Witness ==
  /\ driver = "ui" /\ pc = "idle" /\ runs = 2
  /\ session.error # "" /\ session.results = <<>>
  /\ files["trace.json"] # <<>>

\* The UI has rendered: its script has run to the end and shows the results.
Shown == driver = "ui" /\ pc = "idle" /\ session.results # <<>>

\* C16: the trace shown in the "trace.json" tab is the trace.json on disk, written
\* by the run whose results are shown, after any sequence of edits of the text,
\* clicks on "Load sample" and clicks on "Run pipeline": its raw_text is the text
\* that run was given.
C16_ShownTraceIsWritten == Shown => files["trace.json"] = <<Dumps(ShownTrace)>>

\* ------------------------------------------------------------- properties: no API key
\* C17: with OPENAI_API_KEY unset or empty a stage raises ValueError before any
\* chat-completion request: a run fails in the extractor, the only stage invoked,
\* with no request sent and no file written.
C17_NoKeyNoRequest ==
  ~api_key =>
    /\ n_requests = 0 /\ requests = <<>> /\ raw = NoResponse
    /\ pc \in {"idle", "stage", "failed"}
    /\ stage \in {0, 1} /\ Len(calls) <= 1
    /\ docs = NoDocs /\ outputs = <<>>
    /\ files = NoFiles /\ written = <<>>
    /\ pc = "failed" => (error = "ValueError" /\ Len(calls) = 1 /\ calls[1].stage = 1)
    /\ session.results = <<>>
    /\ (pc = "idle" /\ runs > 0 /\ driver = "ui") => session.error = "ValueError"

\* C17's case: without the key, the second run too has failed in the extractor.
C17_Witness ==
  /\ ~api_key /\ pc = "failed" /\ stage = 1 /\ runs = 2
  /\ error = "ValueError" /\ n_requests = 0

\* ------------------------------------------------------------- properties: idempotence
\* C18: normalisation is idempotent: _normalize_facts applied to the list it
\* returned returns that list, and so does _clean_list.
C18_Idempotent ==
  op \in {"normalize_facts_twice", "clean_list_twice"} =>
    res.ok /\ AsList(res.val) = data.l

====
